---------------------------- MODULE Spec2Model ----------------------------
(***************************************************************************)
(* A model of the geneos samplers package: tag parsing (parseTags), schema *)
(* derivation (ColumnInfo), table building (RowsFromMap, RowsFromSlice,    *)
(* RowsFromMapDelta), row sorting (sortRows) and the UpdateTableFrom*      *)
(* methods that publish a built table to the dataview.                     *)
(*                                                                         *)
(* Go strings are modelled as sequences of one-character strings, so that  *)
(* splitting, indexing, suffix tests, rendering and byte-wise comparison   *)
(* are computed and not assumed.                                           *)
(***************************************************************************)
EXTENDS Integers, Sequences, FiniteSets, TLC

(***************************************************************************)
(* Strings                                                                 *)
(***************************************************************************)

\* The characters that occur in the model, in ASCII order.
Alphabet ==
    << " ", "!", "%", "(", ")", "+", ",", "-", ".",
       "0", "1", "2", "3", "4", "5", "6", "7", "8", "9",
       "=", "A", "B", "C", "E", "I", "M", "N", "O", "R", "T", "X", "Y",
       "a", "b", "c", "e", "f", "g", "i", "l", "m", "n", "o", "r", "s", "t", "u",
       "v", "x", "y" >>

Ord(ch) == CHOOSE i \in 1..Len(Alphabet) : Alphabet[i] = ch

Digits == << "0", "1", "2", "3", "4", "5", "6", "7", "8", "9" >>

IsDigit(ch) == \E i \in 1..10 : Digits[i] = ch

DigitVal(ch) == (CHOOSE i \in 1..10 : Digits[i] = ch) - 1

\* Go's < on strings: byte-wise lexicographic, a proper prefix is smaller.
RECURSIVE StrLess(_, _)
StrLess(a, b) ==
    IF b = << >> THEN FALSE
    ELSE IF a = << >> THEN TRUE
    ELSE IF Head(a) = Head(b) THEN StrLess(Tail(a), Tail(b))
    ELSE Ord(Head(a)) < Ord(Head(b))

\* Go's >= on strings.
StrGeq(a, b) == ~StrLess(a, b)

\* strings.IndexByte: the 0-based index of the first ch in t, or -1.
IndexByte(t, ch) ==
    IF \E i \in 1..Len(t) : t[i] = ch
    THEN (CHOOSE i \in 1..Len(t) : t[i] = ch /\ \A j \in 1..(i - 1) : t[j] # ch) - 1
    ELSE -1

\* strings.Split(s, sep) for a one-byte separator: always at least one piece.
RECURSIVE Split(_, _)
Split(s, sep) ==
    LET i == IndexByte(s, sep)
    IN  IF i = -1 THEN << s >>
        ELSE << SubSeq(s, 1, i) >> \o Split(SubSeq(s, i + 2, Len(s)), sep)

\* strings.HasSuffix
HasSuffix(s, suffix) ==
    /\ Len(s) >= Len(suffix)
    /\ SubSeq(s, Len(s) - Len(suffix) + 1, Len(s)) = suffix

\* strconv.Itoa for a natural number.
RECURSIVE NatToStr(_)
NatToStr(n) ==
    IF n < 10 THEN << Digits[n + 1] >>
    ELSE NatToStr(n \div 10) \o << Digits[(n % 10) + 1] >>

(***************************************************************************)
(* columndetails, sortType and the tag keywords                            *)
(***************************************************************************)

sortNone == 0
sortAsc == 1
sortDesc == 2
sortAscNum == 3
sortDescNum == 4

sorting == << "s", "o", "r", "t" >>
format == << "f", "o", "r", "m", "a", "t" >>

OMIT == << "O", "M", "I", "T" >>
DefaultFormat == << "%", "v" >>

\* The zero value of columndetails (what a Go map lookup of a missing key gives).
ZeroColumn ==
    [tags |-> << >>, name |-> << >>, number |-> 0, format |-> << >>, sort |-> sortNone]

\* One clause "sort=..." of parseTags: t is the clause, i the 0-based index of
\* '='.  t[i+1] is read without a length check.
SortClause(cols, t, i) ==
    IF i + 2 > Len(t)
    THEN [cols |-> cols, res |-> "panic"]
    ELSE LET dir == IF t[i + 2] = "-" THEN sortDesc ELSE sortAsc
             num == HasSuffix(SubSeq(t, i + 2, Len(t)), << "n", "u", "m" >>)
             mode == IF num
                     THEN (IF dir = sortAsc THEN sortAscNum ELSE sortDescNum)
                     ELSE dir
         IN  [cols |-> [cols EXCEPT !.sort = mode], res |-> "ok"]

\* One clause without '=': the display name.
NameClause(cols, fieldname, t) ==
    IF cols.name # fieldname
    THEN [cols |-> cols, res |-> "error"]
    ELSE [cols |-> [cols EXCEPT !.name = t], res |-> "ok"]

\* The body of parseTags' loop for one clause t.
ParseClause(cols, fieldname, t) ==
    LET i == IndexByte(t, "=")
    IN  IF i = -1 THEN NameClause(cols, fieldname, t)
        ELSE LET prefix == SubSeq(t, 1, i)
             IN  IF prefix = sorting THEN SortClause(cols, t, i)
                 ELSE IF prefix = format
                 THEN [cols |-> [cols EXCEPT !.format = SubSeq(t, i + 2, Len(t))],
                       res |-> "ok"]
                 ELSE [cols |-> cols, res |-> "ok"]

RECURSIVE ParseClauses(_, _, _)
ParseClauses(cols, fieldname, clauses) ==
    IF clauses = << >> THEN [cols |-> cols, res |-> "ok"]
    ELSE LET r == ParseClause(cols, fieldname, Head(clauses))
         IN  IF r.res # "ok" THEN r
             ELSE ParseClauses(r.cols, fieldname, Tail(clauses))

\* parseTags(fieldname, tag): res is "ok", "error" (err # nil) or "panic".
parseTags(fieldname, tag) ==
    ParseClauses([tags |-> tag, name |-> fieldname, number |-> 0,
                  format |-> DefaultFormat, sort |-> sortNone],
                 fieldname, Split(tag, ","))


(***************************************************************************)
(* Field values and their rendering                                        *)
(*                                                                         *)
(* A field value is an int, a string or a float64.  A float64 is kept as a *)
(* sign and a magnitude in tenths (n = 25 is 2.5), which is exact for the  *)
(* quotients the model produces; the sign is kept apart because float64    *)
(* has a negative zero, which fmt renders as "-0".                         *)
(***************************************************************************)

IntV(i) == [kind |-> "int", neg |-> FALSE, n |-> i, s |-> << >>]
StrV(str) == [kind |-> "string", neg |-> FALSE, n |-> 0, s |-> str]
FloatV(negative, tenths) == [kind |-> "float64", neg |-> negative, n |-> tenths, s |-> << >>]

\* fmt's %v of a value.
FormatV(v) ==
    CASE v.kind = "int" -> NatToStr(v.n)
      [] v.kind = "string" -> v.s
      [] v.kind = "float64" ->
            (IF v.neg THEN << "-" >> ELSE << >>)
            \o NatToStr(v.n \div 10)
            \o (IF v.n % 10 = 0 THEN << >> ELSE << ".", Digits[(v.n % 10) + 1] >>)

\* The Go type name of a value, as fmt prints it.
TypeName(v) ==
    CASE v.kind = "int" -> << "i", "n", "t" >>
      [] v.kind = "string" -> << "s", "t", "r", "i", "n", "g" >>
      [] v.kind = "float64" -> << "f", "l", "o", "a", "t", "6", "4" >>

\* fmt's %.1f of a value: a float with one decimal, anything else is a bad verb.
FormatF1(v) ==
    CASE v.kind = "float64" ->
            (IF v.neg THEN << "-" >> ELSE << >>)
            \o NatToStr(v.n \div 10) \o << ".", Digits[(v.n % 10) + 1] >>
      [] OTHER ->
            << "%", "!", "f", "(" >> \o TypeName(v) \o << "=" >> \o FormatV(v) \o << ")" >>

\* fmt.Sprintf(format, v) for the formats the model's tags set.  A format
\* without a verb (the empty format of the zero columndetails) reports the
\* value as an extra argument.
Sprintf(fmt, v) ==
    CASE fmt = << "%", "v" >> -> FormatV(v)
      [] fmt = << "%", ".", "1", "f" >> -> FormatF1(v)
      [] OTHER -> fmt \o << "%", "!", "(", "E", "X", "T", "R", "A", " " >>
                      \o TypeName(v) \o << "=" >> \o FormatV(v) \o << ")" >>

\* toFloat: reflect's ConvertibleTo(float64) holds for the numeric kinds only.
toFloat(v) ==
    CASE v.kind = "int" -> [ok |-> TRUE, f |-> FloatV(FALSE, v.n * 10)]
      [] v.kind = "float64" -> [ok |-> TRUE, f |-> v]
      [] OTHER -> [ok |-> FALSE, f |-> FloatV(FALSE, 0)]

\* A float64 as a signed number of tenths, and back.
Signed(f) == IF f.neg THEN 0 - f.n ELSE f.n
Abs(i) == IF i < 0 THEN 0 - i ELSE i

\* newfloat - oldfloat: an exact zero difference is +0.
FloatSub(a, b) ==
    LET d == Signed(a) - Signed(b)
    IN  FloatV(d < 0, Abs(d))

\* f / interval.Seconds() for a whole, non-zero number of seconds: the sign of
\* the quotient is the exclusive or of the signs, also when f is zero.
FloatDiv(f, seconds) ==
    FloatV(f.neg # (seconds < 0), f.n \div Abs(seconds))

(***************************************************************************)
(* strconv.ParseFloat, as sortRows uses it: the error is dropped, so a     *)
(* string that is not a number counts as 0.  The result is a signed        *)
(* numerator num and the number of decimals dec (the value is num/10^dec), *)
(* or one of the special values ParseFloat recognises whatever the case of *)
(* the letters: "NaN" (nan), and "Inf" or "Infinity" with an optional sign *)
(* (inf is 1 or -1).  Decimal numbers are read without an exponent.        *)
(***************************************************************************)

UpperCase == << "A", "B", "C", "E", "I", "M", "N", "O", "R", "T", "X", "Y" >>
LowerCase == << "a", "b", "c", "e", "i", "m", "n", "o", "r", "t", "x", "y" >>

ToLower(ch) ==
    IF \E i \in 1..Len(UpperCase) : UpperCase[i] = ch
    THEN LowerCase[CHOOSE i \in 1..Len(UpperCase) : UpperCase[i] = ch]
    ELSE ch

EqualFold(str, word) ==
    /\ Len(str) = Len(word)
    /\ \A i \in 1..Len(str) : ToLower(str[i]) = word[i]

RECURSIVE DigitsToNat(_)
DigitsToNat(ds) ==
    IF ds = << >> THEN 0
    ELSE DigitsToNat(SubSeq(ds, 1, Len(ds) - 1)) * 10 + DigitVal(ds[Len(ds)])

AllDigits(ds) == \A i \in 1..Len(ds) : IsDigit(ds[i])

ParseFloat(str) ==
    LET signed == str # << >> /\ Head(str) \in {"+", "-"}
        negative == signed /\ Head(str) = "-"
        body == IF signed THEN Tail(str) ELSE str
        dot == IndexByte(body, ".")
        whole == IF dot = -1 THEN body ELSE SubSeq(body, 1, dot)
        frac == IF dot = -1 THEN << >> ELSE SubSeq(body, dot + 2, Len(body))
        valid == AllDigits(whole) /\ AllDigits(frac) /\ Len(whole) + Len(frac) > 0
        mag == DigitsToNat(whole \o frac)
        infinite == \/ EqualFold(body, << "i", "n", "f" >>)
                    \/ EqualFold(body, << "i", "n", "f", "i", "n", "i", "t", "y" >>)
    IN  CASE EqualFold(str, << "n", "a", "n" >>) ->
                [num |-> 0, dec |-> 0, nan |-> TRUE, inf |-> 0]
          [] infinite ->
                [num |-> 0, dec |-> 0, nan |-> FALSE,
                 inf |-> IF negative THEN -1 ELSE 1]
          [] valid /\ ~infinite ->
                [num |-> IF negative THEN 0 - mag ELSE mag, dec |-> Len(frac),
                 nan |-> FALSE, inf |-> 0]
          [] OTHER -> [num |-> 0, dec |-> 0, nan |-> FALSE, inf |-> 0]

RECURSIVE Pow10(_)
Pow10(k) == IF k = 0 THEN 1 ELSE 10 * Pow10(k - 1)

\* float64's ==, < and >=: every comparison with a NaN is false.
NumEq(a, b) ==
    /\ ~a.nan /\ ~b.nan
    /\ IF a.inf # 0 \/ b.inf # 0 THEN a.inf = b.inf
       ELSE a.num * Pow10(b.dec) = b.num * Pow10(a.dec)

NumLess(a, b) ==
    /\ ~a.nan /\ ~b.nan
    /\ IF a.inf # 0 \/ b.inf # 0 THEN a.inf < b.inf
       ELSE a.num * Pow10(b.dec) < b.num * Pow10(a.dec)

NumGeq(a, b) == ~a.nan /\ ~b.nan /\ ~NumLess(a, b)

(***************************************************************************)
(* sortRows                                                                *)
(***************************************************************************)

\* A map lookup c[fieldname]: the zero value when the key is missing.
Lookup(c, fieldname) == IF fieldname \in DOMAIN c THEN c[fieldname] ELSE ZeroColumn

\* The less function handed to sort.Slice, on the two rows compared; sortby is
\* the 0-based cell index.
RowLess(sorttype, sortby, ra, rb) ==
    LET sa == ra[sortby + 1]
        sb == rb[sortby + 1]
        an == ParseFloat(sa)
        bn == ParseFloat(sb)
    IN  CASE sorttype = sortDesc -> StrGeq(sa, sb)
          [] sorttype = sortAscNum ->
                IF NumEq(an, bn) THEN StrLess(sa, sb) ELSE NumLess(an, bn)
          [] sorttype = sortDescNum ->
                IF NumEq(an, bn) THEN StrGeq(sa, sb) ELSE NumGeq(an, bn)
          [] OTHER -> StrLess(sa, sb)

Swap(rows, i, j) == [rows EXCEPT ![i] = rows[j], ![j] = rows[i]]

\* sort.Slice on fewer than 12 elements is an insertion sort: element j moves
\* left while less(j, j-1).
RECURSIVE InsertLeft(_, _, _, _)
InsertLeft(rows, j, sorttype, sortby) ==
    IF j > 1 /\ RowLess(sorttype, sortby, rows[j], rows[j - 1])
    THEN InsertLeft(Swap(rows, j, j - 1), j - 1, sorttype, sortby)
    ELSE rows

RECURSIVE InsertionSort(_, _, _, _)
InsertionSort(rows, i, sorttype, sortby) ==
    IF i > Len(rows) THEN rows
    ELSE InsertionSort(InsertLeft(rows, i, sorttype, sortby), i + 1, sorttype, sortby)

\* c.sortRows(rows, sortcol).  The less function indexes every row it compares
\* at c[sortcol].number; it is first called when there are two rows.
sortRows(c, rows, sortcol) ==
    LET sorttype == Lookup(c, sortcol).sort
        sortby == Lookup(c, sortcol).number
    IN  IF Len(rows) >= 2 /\ \E i \in 1..Len(rows) : sortby + 1 > Len(rows[i])
        THEN [rows |-> << >>, res |-> "panic"]
        ELSE [rows |-> InsertionSort(rows, 2, sorttype, sortby), res |-> "ok"]


(***************************************************************************)
(* ColumnInfo                                                              *)
(*                                                                         *)
(* A record type is a sequence of field declarations [name, hastag, tag]   *)
(* in declaration order; rowdata is [kind, fields], kind "struct" for a    *)
(* flat record.                                                            *)
(***************************************************************************)

\* The body of ColumnInfo's loop for field i (0-based): the descriptor of the
\* field, and whether the field declared a sort mode.
FieldColumn(fields, i) ==
    LET fd == fields[i + 1]
        p == parseTags(fd.name, fd.tag)
    IN  IF fd.hastag
        THEN [column |-> [p.cols EXCEPT !.number = i], res |-> p.res,
              sorts |-> p.cols.sort # sortNone]
        ELSE [column |-> [ZeroColumn EXCEPT !.name = fd.name, !.number = i,
                                            !.format = DefaultFormat],
              res |-> "ok", sorts |-> FALSE]

\* ColumnLoop without the test for OMIT: every display name is listed.
RECURSIVE ColumnLoop_ListOmit(_, _, _, _, _)
ColumnLoop_ListOmit(fields, i, cols, names, sortfield) ==
    IF i >= Len(fields)
    THEN [cols |-> cols, columnnames |-> names, sorting |-> sortfield, res |-> "ok"]
    ELSE LET fc == FieldColumn(fields, i)
             fieldname == fields[i + 1].name
         IN  IF fc.res # "ok"
             THEN [cols |-> cols, columnnames |-> names, sorting |-> sortfield,
                   res |-> fc.res]
             ELSE ColumnLoop_ListOmit(fields, i + 1,
                     [f \in DOMAIN cols \cup {fieldname} |->
                         IF f = fieldname THEN fc.column ELSE cols[f]],
                     Append(names, fc.column.name),
                     IF fc.sorts THEN fieldname ELSE sortfield)

RECURSIVE ColumnLoop(_, _, _, _, _)
ColumnLoop(fields, i, cols, columnnames, sortfield) ==
    IF i >= Len(fields)
    THEN [cols |-> cols, columnnames |-> columnnames, sorting |-> sortfield,
          res |-> "ok"]
    ELSE LET fc == FieldColumn(fields, i)
             fieldname == fields[i + 1].name
         IN  IF fc.res # "ok"
             THEN [cols |-> cols, columnnames |-> columnnames,
                   sorting |-> sortfield, res |-> fc.res]
             ELSE ColumnLoop(fields, i + 1,
                     [f \in DOMAIN cols \cup {fieldname} |->
                         IF f = fieldname THEN fc.column ELSE cols[f]],
                     IF fc.column.name # OMIT
                     THEN Append(columnnames, fc.column.name) ELSE columnnames,
                     IF fc.sorts THEN fieldname ELSE sortfield)

EmptyColumns == [f \in {} |-> ZeroColumn]

\* ColumnInfo(rowdata): (cols, columnnames, sorting, err).  rt.Field(0) is read
\* before the loop, whatever the number of fields.
ColumnInfo(rowdata) ==
    IF rowdata.kind # "struct"
    THEN [cols |-> EmptyColumns, columnnames |-> << >>, sorting |-> << >>,
          res |-> "error"]
    ELSE IF Len(rowdata.fields) = 0
    THEN [cols |-> EmptyColumns, columnnames |-> << >>, sorting |-> << >>,
          res |-> "panic"]
    ELSE ColumnLoop(rowdata.fields, 0, EmptyColumns, << >>, rowdata.fields[1].name)

(***************************************************************************)
(* Table building                                                          *)
(*                                                                         *)
(* A collection element is [kind, fields]: kind "struct" with the field    *)
(* values in declaration order, or "invalid" for the zero reflect.Value    *)
(* that MapIndex returns for a missing key.  names are the field names of  *)
(* the element type (t.Field(i).Name).  A collection is [kind, m, l]: a    *)
(* map m from keys to elements, or a slice l of elements.                  *)
(***************************************************************************)

Struct(values) == [kind |-> "struct", fields |-> values]
Invalid == [kind |-> "invalid", fields |-> << >>]

\* rold.MapIndex(k)
MapIndex(m, k) == IF k \in DOMAIN m THEN m[k] ELSE Invalid

\* rowFromStruct: the field values, or no row and an error.
rowFromStruct(c, rv) ==
    IF rv.kind # "struct"
    THEN [row |-> << >>, res |-> "error"]
    ELSE [row |-> rv.fields, res |-> "ok"]

\* RenderCells without the test for OMIT.
RECURSIVE RenderCells_KeepOmit(_, _, _, _)
RenderCells_KeepOmit(c, names, rawcells, i) ==
    IF i > Len(rawcells) THEN << >>
    ELSE << Sprintf(Lookup(c, names[i]).format, rawcells[i]) >>
         \o RenderCells_KeepOmit(c, names, rawcells, i + 1)

\* The cell loop of RowsFromMap and RowsFromSlice from field i (1-based) on.
RECURSIVE RenderCells(_, _, _, _)
RenderCells(c, names, rawcells, i) ==
    IF i > Len(rawcells) THEN << >>
    ELSE LET column == Lookup(c, names[i])
         IN  (IF column.name = OMIT THEN << >>
              ELSE << Sprintf(column.format, rawcells[i]) >>)
             \o RenderCells(c, names, rawcells, i + 1)

\* RowsFromMap; order is the order in which r.MapKeys() lists the keys.
RowsFromMap(c, sortcol, names, rowdata, order) ==
    IF rowdata.kind # "map"
    THEN [rows |-> << >>, res |-> "error"]
    ELSE sortRows(c,
            [j \in 1..Len(order) |->
                RenderCells(c, names, rowFromStruct(c, rowdata.m[order[j]]).row, 1)],
            sortcol)

\* RowsFromSlice passing its rows through sortRows, on the first field.
RowsFromSlice_Sorted(c, names, rowdata) ==
    IF rowdata.kind # "slice"
    THEN [rows |-> << >>, res |-> "error"]
    ELSE sortRows(c,
            [j \in 1..Len(rowdata.l) |->
                RenderCells(c, names, rowFromStruct(c, rowdata.l[j]).row, 1)],
            names[1])

\* RowsFromSlice: no sort.
RowsFromSlice(c, names, rowdata) ==
    IF rowdata.kind # "slice"
    THEN [rows |-> << >>, res |-> "error"]
    ELSE [rows |-> [j \in 1..Len(rowdata.l) |->
                        RenderCells(c, names, rowFromStruct(c, rowdata.l[j]).row, 1)],
          res |-> "ok"]

\* DeltaCell with the difference left unscaled.
DeltaCell_Unscaled(fmt, newcell, oldcell, seconds) ==
    LET newfloat == toFloat(newcell)
        oldfloat == toFloat(oldcell)
    IN  IF newfloat.ok /\ oldfloat.ok
        THEN Sprintf(fmt, FloatSub(newfloat.f, oldfloat.f))
        ELSE Sprintf(fmt, newcell)

\* One cell of RowsFromMapDelta, both values being in hand.
DeltaCell(fmt, newcell, oldcell, seconds) ==
    LET newfloat == toFloat(newcell)
        oldfloat == toFloat(oldcell)
    IN  IF newfloat.ok /\ oldfloat.ok
        THEN Sprintf(fmt, FloatDiv(FloatSub(newfloat.f, oldfloat.f), seconds))
        ELSE Sprintf(fmt, newcell)

\* The cell loop of RowsFromMapDelta from field i (1-based) on: rawold[i] is
\* read without a length check, and a type mismatch ends the whole build.
RECURSIVE DeltaCells(_, _, _, _, _, _, _)
DeltaCells(c, names, rawcells, rawold, seconds, i, cells) ==
    IF i > Len(rawcells) THEN [cells |-> cells, res |-> "ok"]
    ELSE LET column == Lookup(c, names[i])
         IN  IF column.name = OMIT
             THEN DeltaCells(c, names, rawcells, rawold, seconds, i + 1, cells)
             ELSE IF i > Len(rawold)
             THEN [cells |-> cells, res |-> "panic"]
             ELSE IF rawold[i].kind # rawcells[i].kind
             THEN [cells |-> cells, res |-> "error"]
             ELSE DeltaCells(c, names, rawcells, rawold, seconds, i + 1,
                     Append(cells,
                         DeltaCell(column.format, rawcells[i], rawold[i], seconds)))

\* The key loop of RowsFromMapDelta from the j-th key of order on.  On a type
\* mismatch the named result rows is returned as built so far, with the error.
RECURSIVE DeltaRows(_, _, _, _, _, _, _, _)
DeltaRows(c, names, new, old, seconds, order, j, rows) ==
    IF j > Len(order) THEN [rows |-> rows, res |-> "ok"]
    ELSE LET k == order[j]
             rawold == rowFromStruct(c, MapIndex(old, k)).row
             rawcells == rowFromStruct(c, MapIndex(new, k)).row
             r == DeltaCells(c, names, rawcells, rawold, seconds, 1, << >>)
         IN  CASE r.res = "panic" -> [rows |-> << >>, res |-> "panic"]
               [] r.res = "error" -> [rows |-> rows, res |-> "error"]
               [] OTHER -> DeltaRows(c, names, new, old, seconds, order, j + 1,
                                     Append(rows, r.cells))

\* DeltaSeconds replacing every non-positive interval.
DeltaSeconds_Clamped(interval) == IF interval <= 0 THEN 1 ELSE interval

\* The interval RowsFromMapDelta divides by, in seconds.
DeltaSeconds(interval) == IF interval = 0 THEN 1 ELSE interval

\* RowsFromMapDelta; interval is a whole number of seconds.
RowsFromMapDelta(c, sortcol, names, newrowdata, oldrowdata, interval, order) ==
    IF newrowdata.kind # "map" \/ oldrowdata.kind # "map"
    THEN [rows |-> << >>, res |-> "error"]
    ELSE LET r == DeltaRows(c, names, newrowdata.m, oldrowdata.m,
                            DeltaSeconds(interval), order, 1, << >>)
         IN  IF r.res = "ok" THEN sortRows(c, r.rows, sortcol) ELSE r

(***************************************************************************)
(* The sampler as a state machine                                          *)
(***************************************************************************)

VARIABLES
    rectype,      \* the record type the sampler renders (the ColumnInfo argument)
    columns,      \* Samplers.columns
    columnnames,  \* Samplers.columnnames
    sortcolumn,   \* Samplers.sortcolumn
    pc,           \* "new", "sampling", "returned", "failed" or "crashed"
    call,         \* the UpdateTableFrom* call of this tick and its arguments
    built,        \* what the RowsFrom* call inside it returned: [rows, res]
    sent,         \* the UpdateTable call made on the dataview, if any
    ret,          \* the error the UpdateTableFrom* call returned: "nil" or "error"
    shape,        \* what the caller hands the UpdateTableFrom* methods
    tagcall,      \* the arguments of a parseTags call: [fieldname, tag]
    parsed,       \* what that call returned: [cols, res]
    sortcall,     \* the arguments of a sortRows call: [rows, sorttype]
    sorted,       \* what that call returned: [rows, res]
    dataview,     \* Samplers.dataview: "nil" or "defined"
    initerr,      \* what initSamplerInternal returned: "none" (not called), "nil", "error"
    starterr,     \* what Start returned: "none" (not called), "nil" or "error"
    wg,           \* the counter of the WaitGroup passed to Start
    task,         \* the goroutine of Start: "none", "waiting", "sampling", "broken", "exited"
    tickC,        \* the ticks buffered in the ticker's channel (capacity 1)
    ticks,        \* the ticks the ticker has fired
    samples,      \* the DoSample calls made
    running,      \* the DoSample calls in progress
    dones,        \* the wg.Done() calls made
    failedAt,     \* the value of samples when DoSample first returned an error, or -1
    dataviewName, \* Dataview.dataviewName
    viewcall,     \* the last call on the dataview and its arguments: [op, name, group]
    removed,      \* the removeView call Close last made: [called, view, group]
    waitGroup,    \* the counter of Sampler.waitGroup; -1 once Done has panicked
    signons,      \* the xSignOn calls made
    heartbeats,   \* per xSignOn call, its goroutine: "looping" or "stopped"
    beats,        \* the heartbeat calls made
    releases,     \* the waitGroup.Done() calls made
    signoffs      \* the xSignOff calls made

samplerVars == << rectype, columns, columnnames, sortcolumn, pc, call, built, sent, ret,
                  shape >>
tagVars == << tagcall, parsed >>
sortVars == << sortcall, sorted >>
startVars == << dataview, initerr, starterr, wg, task, tickC, ticks, samples, running, dones,
                failedAt >>
viewVars == << dataviewName, viewcall, removed >>
signVars == << waitGroup, signons, heartbeats, beats, releases, signoffs >>

vars == << samplerVars, tagVars, sortVars, startVars, viewVars, signVars >>

\* Bounds of the model.
FieldNames == << << "A" >>, << "B" >> >>
Keys == {"k1", "k2"}
Values == {IntV(100), IntV(110), StrV(<< "x" >>)}
PreviousValues == {IntV(100), StrV(<< "y" >>)}
Intervals == {-10, 0, 10}

NoTag == [hastag |-> FALSE, tag |-> << >>]
Tag(t) == [hastag |-> TRUE, tag |-> t]

\* The tags of the record types that are sampled.
TableTags ==
    { NoTag,
      Tag(OMIT),
      Tag(<< "s", "o", "r", "t", "=", "-" >>),
      Tag(<< "s", "o", "r", "t", "=", "+", "n", "u", "m" >>),
      Tag(<< "f", "o", "r", "m", "a", "t", "=", "%", ".", "1", "f" >>) }

\* The struct types of n fields named FieldNames[1..n], tagged from tags.
StructTypes(n, tags) ==
    { [kind |-> "struct",
       fields |-> [i \in 1..n |-> [name |-> FieldNames[i], hastag |-> ts[i].hastag,
                                   tag |-> ts[i].tag]]] : ts \in [1..n -> tags] }

SampledTypes == UNION { StructTypes(n, TableTags) : n \in 1..Len(FieldNames) }

Names(rt) == [i \in 1..Len(rt.fields) |-> rt.fields[i].name]

\* The collections a tick can be handed: every element is a record of rt.
Elements(rt) == { Struct(vs) : vs \in [1..Len(rt.fields) -> Values] }
Maps(rt) == UNION { [K -> Elements(rt)] : K \in SUBSET Keys }
PreviousElements(rt) == { Struct(vs) : vs \in [1..Len(rt.fields) -> PreviousValues] }
PreviousMaps(rt) == UNION { [K -> PreviousElements(rt)] : K \in SUBSET Keys }
MapData(m) == [kind |-> "map", m |-> m, l |-> << >>]
SliceData(l) == [kind |-> "slice", m |-> << >>, l |-> l]
Slices(rt) == UNION { [1..n -> Elements(rt)] : n \in 0..Cardinality(Keys) }

\* The orders in which a map's keys can be listed.
Orders(S) ==
    { o \in [1..Cardinality(S) -> S] : \A i, j \in 1..Cardinality(S) : o[i] = o[j] => i = j }

\* What a caller hands the methods instead of records: collections whose
\* elements are ints (map[string]int, []int), which rowFromStruct refuses.
Scalar == [kind |-> "int", fields |-> << >>]
ScalarMaps == UNION { [K -> {Scalar}] : K \in SUBSET Keys }
ScalarSlices == UNION { [1..n -> {Scalar}] : n \in 0..Cardinality(Keys) }

\* The values a caller of the given shape passes as rowdata: collections of
\* records of the sampled type ("records"), collections of the expected kind
\* whose elements are not records ("scalars"), or the other kind of collection
\* ("collection").
MapArgs ==
    CASE shape = "records" -> { MapData(m) : m \in Maps(rectype) }
      [] shape = "scalars" -> { MapData(m) : m \in ScalarMaps }
      [] OTHER -> { SliceData(l) : l \in Slices(rectype) }

PreviousMapArgs ==
    CASE shape = "records" -> { MapData(m) : m \in PreviousMaps(rectype) }
      [] shape = "scalars" -> { MapData(m) : m \in ScalarMaps }
      [] OTHER -> { SliceData(l) : l \in Slices(rectype) }

SliceArgs ==
    CASE shape = "records" -> { SliceData(l) : l \in Slices(rectype) }
      [] shape = "scalars" -> { SliceData(l) : l \in ScalarSlices }
      [] OTHER -> { MapData(m) : m \in Maps(rectype) }

NoCall == [op |-> "none", newdata |-> MapData(<< >>), olddata |-> MapData(<< >>),
           interval |-> 0]
NoRows == [rows |-> << >>, res |-> "none"]
NotSent == [published |-> FALSE, columns |-> << >>, rows |-> << >>]

NoTagCall == [fieldname |-> << >>, tag |-> << >>]
NotParsed == [cols |-> ZeroColumn, res |-> "none"]

NoSortCall == [rows |-> << >>, sorttype |-> sortNone]

\* The parts of the state a specification does not exercise stay as below.
SamplerIdle ==
    /\ rectype = [kind |-> "struct", fields |-> << >>]
    /\ columns = EmptyColumns
    /\ columnnames = << >>
    /\ sortcolumn = << >>
    /\ pc = "new"
    /\ call = NoCall
    /\ built = NoRows
    /\ sent = NotSent
    /\ ret = "none"
    /\ shape = "records"

TagsIdle ==
    /\ tagcall = NoTagCall
    /\ parsed = NotParsed

SortIdle ==
    /\ sortcall = NoSortCall
    /\ sorted = NoRows

StartIdle ==
    /\ dataview = "nil"
    /\ initerr = "none"
    /\ starterr = "none"
    /\ wg = 0
    /\ task = "none"
    /\ tickC = 0
    /\ ticks = 0
    /\ samples = 0
    /\ running = 0
    /\ dones = 0
    /\ failedAt = -1

NoViewCall == [op |-> "none", name |-> << >>, group |-> << >>]

NotRemoved == [called |-> FALSE, view |-> << >>, group |-> << >>]

ViewIdle ==
    /\ dataviewName = << >>
    /\ viewcall = NoViewCall
    /\ removed = NotRemoved

SignIdle ==
    /\ waitGroup = 0
    /\ signons = 0
    /\ heartbeats = << >>
    /\ beats = 0
    /\ releases = 0
    /\ signoffs = 0

Init ==
    /\ rectype \in SampledTypes
    /\ columns = EmptyColumns
    /\ columnnames = << >>
    /\ sortcolumn = << >>
    /\ pc = "new"
    /\ call = NoCall
    /\ built = NoRows
    /\ sent = NotSent
    /\ ret = "none"
    /\ shape = "records"
    /\ TagsIdle /\ SortIdle /\ StartIdle /\ ViewIdle /\ SignIdle

\* InitSampler: derive the schema once and keep it in the sampler; Start does
\* not launch the sampling loop when it fails.
InitSampler ==
    /\ pc = "new"
    /\ LET r == ColumnInfo(rectype)
       IN  /\ pc' = CASE r.res = "ok" -> "sampling"
                      [] r.res = "error" -> "failed"
                      [] OTHER -> "crashed"
           /\ columns' = IF r.res = "panic" THEN columns ELSE r.cols
           /\ columnnames' = IF r.res = "panic" THEN columnnames ELSE r.columnnames
           /\ sortcolumn' = IF r.res = "panic" THEN sortcolumn ELSE r.sorting
    /\ UNCHANGED << rectype, call, built, sent, ret, shape, tagVars,
                 sortVars, startVars, viewVars, signVars >>

\* Dataview.UpdateTable(columns, values...): the table replaces the contents of
\* the dataview when the view exists on the netprobe, and is refused otherwise.
UpdateTable(viewExists, cols, values) ==
    IF viewExists
    THEN [sent |-> [published |-> TRUE, columns |-> cols, rows |-> values],
          err |-> "nil"]
    ELSE [sent |-> NotSent, err |-> "error"]

\* The body shared by the UpdateTableFrom* methods: the error of the RowsFrom*
\* call is dropped, the rows it returned go to Dataview.UpdateTable, whose error
\* is returned; a panic unwinds through the method.
Publish(c, table) ==
    /\ call' = c
    /\ built' = table
    /\ IF table.res = "panic"
       THEN /\ pc' = "crashed"
            /\ sent' = NotSent
            /\ ret' = "none"
       ELSE \E viewExists \in BOOLEAN :
               LET u == UpdateTable(viewExists, columnnames, table.rows)
               IN  /\ pc' = "returned"
                   /\ sent' = u.sent
                   /\ ret' = u.err
    /\ UNCHANGED << rectype, columns, columnnames, sortcolumn, shape, tagVars,
                 sortVars, startVars, viewVars, signVars >>

UpdateTableFromMap ==
    /\ pc = "sampling"
    /\ \E data \in MapArgs : \E order \in Orders(DOMAIN data.m) :
          Publish([NoCall EXCEPT !.op = "map", !.newdata = data],
                  RowsFromMap(columns, sortcolumn, Names(rectype), data, order))

UpdateTableFromSlice ==
    /\ pc = "sampling"
    /\ \E rowdata \in SliceArgs :
          Publish([NoCall EXCEPT !.op = "slice", !.newdata = rowdata],
                  RowsFromSlice(columns, Names(rectype), rowdata))

UpdateTableFromMapDelta ==
    /\ pc = "sampling"
    /\ \E newdata \in MapArgs, olddata \in PreviousMapArgs, interval \in Intervals :
       \E order \in Orders(DOMAIN newdata.m) :
          Publish([op |-> "delta", newdata |-> newdata, olddata |-> olddata,
                   interval |-> interval],
                  RowsFromMapDelta(columns, sortcolumn, Names(rectype), newdata,
                                   olddata, interval, order))

\* The sampling loop of Start waits for the next tick after a DoSample that
\* returned no error, and ends after one that returned an error.
NextTick ==
    /\ pc = "returned"
    /\ ret = "nil"
    /\ pc' = "sampling"
    /\ call' = NoCall
    /\ built' = NoRows
    /\ sent' = NotSent
    /\ ret' = "none"
    /\ UNCHANGED << rectype, columns, columnnames, sortcolumn, shape, tagVars,
                 sortVars, startVars, viewVars, signVars >>

Next ==
    \/ InitSampler
    \/ UpdateTableFromMap
    \/ UpdateTableFromSlice
    \/ UpdateTableFromMapDelta
    \/ NextTick

Spec == Init /\ [][Next]_vars

(***************************************************************************)
(* The sampler of a caller that hands the UpdateTableFrom* methods values  *)
(* of another shape than collections of records.                           *)
(***************************************************************************)

ShapeTypes == UNION { StructTypes(n, {NoTag, Tag(OMIT)}) : n \in 1..Len(FieldNames) }

InitShape ==
    /\ rectype \in ShapeTypes
    /\ columns = EmptyColumns
    /\ columnnames = << >>
    /\ sortcolumn = << >>
    /\ pc = "new"
    /\ call = NoCall
    /\ built = NoRows
    /\ sent = NotSent
    /\ ret = "none"
    /\ shape \in {"scalars", "collection"}
    /\ TagsIdle /\ SortIdle /\ StartIdle /\ ViewIdle /\ SignIdle

SpecShape == InitShape /\ [][Next]_vars

(***************************************************************************)
(* parseTags on its own: the tags are every list of at most MaxClauses     *)
(* clauses, joined by commas.                                              *)
(***************************************************************************)

MaxClauses == 2

Clauses ==
    { << >>,
      << "A" >>, << "X" >>, << "Y" >>, OMIT,
      << "s", "o", "r", "t", "=" >>,
      << "s", "o", "r", "t", "=", "+" >>,
      << "s", "o", "r", "t", "=", "-" >>,
      << "s", "o", "r", "t", "=", "n", "u", "m" >>,
      << "s", "o", "r", "t", "=", "+", "n", "u", "m" >>,
      << "s", "o", "r", "t", "=", "-", "n", "u", "m" >>,
      << "f", "o", "r", "m", "a", "t", "=", "%", ".", "1", "f" >>,
      << "u", "n", "i", "t", "=", "s" >> }

RECURSIVE Join(_)
Join(cs) ==
    IF Len(cs) = 1 THEN cs[1]
    ELSE cs[1] \o << "," >> \o Join(Tail(cs))

TagTexts == { Join(cs) : cs \in UNION { [1..n -> Clauses] : n \in 1..MaxClauses } }

InitTags ==
    /\ SamplerIdle /\ SortIdle /\ StartIdle /\ ViewIdle /\ SignIdle
    /\ tagcall \in [fieldname : {FieldNames[i] : i \in 1..Len(FieldNames)}, tag : TagTexts]
    /\ parsed = NotParsed

ParseTags ==
    /\ parsed.res = "none"
    /\ parsed' = parseTags(tagcall.fieldname, tagcall.tag)
    /\ UNCHANGED << samplerVars, tagcall, sortVars, startVars, viewVars, signVars >>

NextTags == ParseTags

SpecTags == InitTags /\ [][NextTags]_vars

(***************************************************************************)
(* sortRows on its own: up to MaxRows rows of one cell, under the registry *)
(* of a record type whose one field A carries the sort mode.               *)
(***************************************************************************)

MaxRows == 3

SortCells ==
    { << "1", "0" >>, << "2" >>, << "x" >>, << "2", ".", "0" >>, << "0" >>,
      << "N", "a", "N" >> }

SortInputs == UNION { [1..n -> { << cell >> : cell \in SortCells }] : n \in 0..MaxRows }

SortColumns(sorttype) ==
    [f \in { << "A" >> } |->
        [ZeroColumn EXCEPT !.name = << "A" >>, !.format = DefaultFormat,
                           !.sort = sorttype]]

InitSort ==
    /\ SamplerIdle /\ TagsIdle /\ StartIdle /\ ViewIdle /\ SignIdle
    /\ sortcall \in [rows : SortInputs,
                     sorttype : {sortNone, sortAsc, sortDesc, sortAscNum, sortDescNum}]
    /\ sorted = NoRows

SortRows ==
    /\ sorted.res = "none"
    /\ sorted' = sortRows(SortColumns(sortcall.sorttype), sortcall.rows, << "A" >>)
    /\ UNCHANGED << samplerVars, tagVars, sortcall, startVars, viewVars, signVars >>

NextSort == SortRows

SpecSort == InitSort /\ [][NextSort]_vars

(***************************************************************************)
(* Samplers.Start and the goroutine it launches.  DoSample and InitSampler *)
(* are the plugin's; each returns nil or an error.  The ticker sends on a  *)
(* channel of capacity 1 and drops a tick the goroutine is not ready for.  *)
(***************************************************************************)

MaxTicks == 6

\* InitDataviews has set the dataview, or has not.
InitStart ==
    /\ SamplerIdle /\ TagsIdle /\ SortIdle /\ ViewIdle /\ SignIdle
    /\ dataview \in {"nil", "defined"}
    /\ initerr = "none"
    /\ starterr = "none"
    /\ wg = 0
    /\ task = "none"
    /\ tickC = 0
    /\ ticks = 0
    /\ samples = 0
    /\ running = 0
    /\ dones = 0
    /\ failedAt = -1

\* Start up to the go statement.
Start ==
    /\ starterr = "none"
    /\ IF dataview = "nil"
       THEN /\ starterr' = "error"
            /\ UNCHANGED << initerr, wg, task >>
       ELSE \E err \in {"nil", "error"} :
               /\ initerr' = err
               /\ starterr' = err
               /\ wg' = IF err = "nil" THEN wg + 1 ELSE wg
               /\ task' = IF err = "nil" THEN "waiting" ELSE task
    /\ UNCHANGED << dataview, tickC, ticks, samples, running, dones, failedAt >>
    /\ UNCHANGED << samplerVars, tagVars, sortVars, viewVars, signVars >>

\* The ticker fires: the tick is buffered, or dropped when one already is.
Tick ==
    /\ task \in {"waiting", "sampling", "broken"}
    /\ ticks < MaxTicks
    /\ ticks' = ticks + 1
    /\ tickC' = 1
    /\ UNCHANGED << dataview, initerr, starterr, wg, task, samples, running, dones,
                    failedAt >>
    /\ UNCHANGED << samplerVars, tagVars, sortVars, viewVars, signVars >>

\* <-tick.C, then the call of p.dosample().
DoSample ==
    /\ task = "waiting"
    /\ tickC = 1
    /\ tickC' = 0
    /\ task' = "sampling"
    /\ samples' = samples + 1
    /\ running' = running + 1
    /\ UNCHANGED << dataview, initerr, starterr, wg, ticks, dones, failedAt >>
    /\ UNCHANGED << samplerVars, tagVars, sortVars, viewVars, signVars >>

\* The loop going round whatever DoSample returned.
AfterSample_KeepGoing(err) == "waiting"

\* if err != nil { break }
AfterSample(err) == IF err = "error" THEN "broken" ELSE "waiting"

\* p.dosample() returns.
DoSampleReturns ==
    /\ task = "sampling"
    /\ \E err \in {"nil", "error"} :
          /\ task' = AfterSample(err)
          /\ failedAt' = IF err = "error" /\ failedAt = -1 THEN samples ELSE failedAt
    /\ running' = running - 1
    /\ UNCHANGED << dataview, initerr, starterr, wg, tickC, ticks, samples, dones >>
    /\ UNCHANGED << samplerVars, tagVars, sortVars, viewVars, signVars >>

\* wg.Done() after the loop; the goroutine then returns and the deferred
\* tick.Stop() runs.
Done ==
    /\ task = "broken"
    /\ wg' = wg - 1
    /\ dones' = dones + 1
    /\ task' = "exited"
    /\ UNCHANGED << dataview, initerr, starterr, tickC, ticks, samples, running,
                    failedAt >>
    /\ UNCHANGED << samplerVars, tagVars, sortVars, viewVars, signVars >>

NextStart ==
    \/ Start
    \/ Tick
    \/ DoSample
    \/ DoSampleReturns
    \/ Done

SpecStart == InitStart /\ [][NextStart]_vars

(***************************************************************************)
(* The name of a Dataview: CreateDataview and SetDataviewName build it     *)
(* from a view name and a group name, DataviewGroupNames takes it apart,   *)
(* and Close removes the view it names.                                    *)
(***************************************************************************)

MaxNameLen == 3

NameChars == {"a", "-"}

NameTexts == UNION { [1..n -> NameChars] : n \in 0..MaxNameLen }

\* groupname + "-" + dataview
Aggregate(view, groupname) == groupname \o << "-" >> \o view

\* DataviewGroupNames: strings.SplitN(d.dataviewName, "-", 2) cuts at the first
\* "-"; s[1] is read whatever the number of pieces.
DataviewGroupNames(name) ==
    LET i == IndexByte(name, "-")
    IN  IF i = -1
        THEN [view |-> << >>, group |-> << >>, res |-> "panic"]
        ELSE [view |-> SubSeq(name, i + 2, Len(name)), group |-> SubSeq(name, 1, i),
              res |-> "ok"]

InitView ==
    /\ SamplerIdle /\ TagsIdle /\ SortIdle /\ StartIdle /\ SignIdle
    /\ ViewIdle

CreateDataview ==
    /\ viewcall.op = "none"
    /\ \E dataviewName_ \in NameTexts, groupName \in NameTexts :
          /\ dataviewName' = Aggregate(dataviewName_, groupName)
          /\ viewcall' = [op |-> "CreateDataview", name |-> dataviewName_,
                          group |-> groupName]
    /\ removed' = NotRemoved
    /\ UNCHANGED << samplerVars, tagVars, sortVars, startVars, signVars >>

SetDataviewName ==
    /\ viewcall.op # "none"
    /\ \E view \in NameTexts, groupname \in NameTexts :
          /\ dataviewName' = Aggregate(view, groupname)
          /\ viewcall' = [op |-> "SetDataviewName", name |-> view, group |-> groupname]
    /\ removed' = NotRemoved
    /\ UNCHANGED << samplerVars, tagVars, sortVars, startVars, signVars >>

\* Dataview.Close: nothing when the view does not exist on the netprobe, else
\* removeView with the names DataviewGroupNames returns.
Close ==
    /\ viewcall.op # "none"
    /\ \E viewExists \in BOOLEAN :
          LET n == DataviewGroupNames(dataviewName)
          IN  removed' = IF viewExists /\ n.res = "ok"
                         THEN [called |-> TRUE, view |-> n.view, group |-> n.group]
                         ELSE removed
    /\ UNCHANGED << dataviewName, viewcall >>
    /\ UNCHANGED << samplerVars, tagVars, sortVars, startVars, signVars >>

NextView ==
    \/ CreateDataview
    \/ SetDataviewName
    \/ Close

SpecView == InitView /\ [][NextView]_vars

(***************************************************************************)
(* xSignOn, the heartbeat goroutine it launches, and xSignOff.  heartbeat  *)
(* and IsValid are calls to the netprobe: each can succeed or fail at any  *)
(* time.  A Done that takes the counter below zero panics, which ends the  *)
(* process.  xSignOff is called at most once per xSignOn.                  *)
(***************************************************************************)

MaxSignOns == 2
MaxBeats == 4

InitSign ==
    /\ SamplerIdle /\ TagsIdle /\ SortIdle /\ StartIdle /\ ViewIdle
    /\ SignIdle

\* xSignOn: the counter is raised and the goroutine launched whatever signOn
\* returned.
xSignOn ==
    /\ waitGroup >= 0
    /\ signons < MaxSignOns
    /\ signons' = signons + 1
    /\ waitGroup' = waitGroup + 1
    /\ heartbeats' = Append(heartbeats, "looping")
    /\ UNCHANGED << beats, releases, signoffs >>
    /\ UNCHANGED << samplerVars, tagVars, sortVars, startVars, viewVars >>

\* One round of the loop of goroutine g: a heartbeat, then Done and break when
\* it failed, or the sleep.
Heartbeat ==
    /\ waitGroup >= 0
    /\ beats < MaxBeats
    /\ \E g \in 1..Len(heartbeats) : \E err \in {"nil", "error"} :
          /\ heartbeats[g] = "looping"
          /\ beats' = beats + 1
          /\ IF err = "error"
             THEN /\ waitGroup' = waitGroup - 1
                  /\ releases' = releases + 1
                  /\ heartbeats' = [heartbeats EXCEPT ![g] = "stopped"]
             ELSE UNCHANGED << waitGroup, releases, heartbeats >>
    /\ UNCHANGED << signons, signoffs >>
    /\ UNCHANGED << samplerVars, tagVars, sortVars, startVars, viewVars >>

\* xSignOff: an error when the sampler does not exist, else Done and signOff.
xSignOff ==
    /\ waitGroup >= 0
    /\ signoffs < signons
    /\ signoffs' = signoffs + 1
    /\ \E valid \in BOOLEAN :
          IF valid
          THEN /\ waitGroup' = waitGroup - 1
               /\ releases' = releases + 1
          ELSE UNCHANGED << waitGroup, releases >>
    /\ UNCHANGED << signons, heartbeats, beats >>
    /\ UNCHANGED << samplerVars, tagVars, sortVars, startVars, viewVars >>

NextSign ==
    \/ xSignOn
    \/ Heartbeat
    \/ xSignOff

SpecSign == InitSign /\ [][NextSign]_vars

(***************************************************************************)
(* Properties                                                              *)
(***************************************************************************)

\* The descriptors of the registry that are displayed.
NonOmit == {f \in DOMAIN columns : columns[f].name # OMIT}

\* rows is exp in some order.
IsPermutation(rows, exp) ==
    /\ Len(rows) = Len(exp)
    /\ \E p \in Orders(1..Len(exp)) : \A j \in 1..Len(exp) : rows[j] = exp[p[j]]

\* The keys the two collections of a delta call share.
SharedKeys == DOMAIN call.newdata.m \cap DOMAIN call.olddata.m

\* The indexes (1-based) of the displayed fields of the record type.
Displayed == {i \in 1..Len(rectype.fields) : columns[rectype.fields[i].name].name # OMIT}

\* The displayed fields as a sequence, in declaration order.
RECURSIVE DisplayedFrom(_)
DisplayedFrom(i) ==
    IF i > Len(rectype.fields) THEN << >>
    ELSE (IF i \in Displayed THEN << i >> ELSE << >>) \o DisplayedFrom(i + 1)

\* The float64 quotient d / seconds of a whole difference d, in tenths.
Rate(d, seconds) == FloatV((d < 0) # (seconds < 0), (Abs(d) * 10) \div Abs(seconds))

\* The whole difference d itself as a float64: its sign is that of d.
RawDifference(d) == FloatV(d < 0, Abs(d) * 10)

\* The row of key k of a delta call when a numeric cell renders Q(d), d being
\* current - previous, and any other cell renders the current value.
DeltaRow(k, Q(_)) ==
    LET cur == call.newdata.m[k].fields
        prev == call.olddata.m[k].fields
        shown == DisplayedFrom(1)
    IN  [j \in 1..Len(shown) |->
            LET i == shown[j]
                fmt == columns[rectype.fields[i].name].format
            IN  IF cur[i].kind = "int" /\ prev[i].kind = "int"
                THEN Sprintf(fmt, Q(cur[i].n - prev[i].n))
                ELSE Sprintf(fmt, cur[i])]

\* The keys of the current collection of a call, in some order.
CurrentKeys == CHOOSE o \in Orders(DOMAIN call.newdata.m) : TRUE

\* The rows of a delta call, one per key of the current collection.
RawRows == [j \in 1..Len(CurrentKeys) |-> DeltaRow(CurrentKeys[j], RawDifference)]
RateRows(seconds) ==
    [j \in 1..Len(CurrentKeys) |->
        LET Q(d) == Rate(d, seconds) IN DeltaRow(CurrentKeys[j], Q)]

\* C1: every row a table build returns has exactly as many cells as the
\* registry has descriptors whose display name is not OMIT, which is also the
\* number of column names ColumnInfo returned.
C1_CellCount ==
    \A j \in 1..Len(built.rows) :
        /\ Len(built.rows[j]) = Cardinality(NonOmit)
        /\ Len(built.rows[j]) = Len(columnnames)

\* C1 witness: a delta build over a registry with one OMIT and one displayed
\* column has returned two rows.
C1_Witness ==
    /\ pc = "returned" /\ call.op = "delta" /\ built.res = "ok"
    /\ Len(built.rows) = 2
    /\ Cardinality(DOMAIN columns) = 2 /\ Cardinality(NonOmit) = 1

\* C2: in delta mode a key present in only one collection is ignored: the
\* build completes normally with exactly one row per shared key.  (Stated for
\* registries without OMIT columns and calls without a kind mismatch, where
\* nothing else can end the build.)
C2_OneSidedKeysIgnored ==
    ( /\ call.op = "delta"
      /\ NonOmit = DOMAIN columns
      /\ \A k \in SharedKeys : \A i \in 1..Len(rectype.fields) :
            call.newdata.m[k].fields[i].kind = call.olddata.m[k].fields[i].kind )
    => /\ built.res = "ok"
       /\ Len(built.rows) = Cardinality(SharedKeys)

\* C3: in delta mode a kind mismatch on a shared key fails the build with no
\* partial table: no rows are returned with the error and none are published.
\* (Stated for registries without OMIT columns, calls whose current keys all
\* have a previous record, and a dataview that exists.)
C3_NoPartialTable ==
    ( /\ call.op = "delta"
      /\ ret = "nil"
      /\ NonOmit = DOMAIN columns
      /\ DOMAIN call.newdata.m \subseteq DOMAIN call.olddata.m
      /\ \E k \in SharedKeys : \E i \in 1..Len(rectype.fields) :
            call.newdata.m[k].fields[i].kind # call.olddata.m[k].fields[i].kind )
    => /\ built.res = "error"
       /\ built.rows = << >>
       /\ sent.rows = << >>

\* C4 as claimed: with a non-positive interval (zero or negative) every numeric
\* cell is rendered from the raw difference current - previous, sign unchanged.
C4_NonPositiveIsOneSecond ==
    (call.op = "delta" /\ built.res = "ok" /\ call.interval <= 0)
    => IsPermutation(built.rows, RawRows)

\* C4 as amended: a zero interval is treated as exactly 1 second, so every
\* numeric cell is rendered from the raw difference with its sign unchanged; a
\* negative interval is not replaced, it divides the difference as given.
C4_ZeroIsOneSecond ==
    /\ (call.op = "delta" /\ built.res = "ok" /\ call.interval = 0)
       => IsPermutation(built.rows, RawRows)
    /\ (call.op = "delta" /\ built.res = "ok" /\ call.interval < 0)
       => IsPermutation(built.rows, RateRows(call.interval))

\* C4 witness: a delta build with interval zero has rendered current 110 and
\* previous 100 as the raw difference "10".
C4_Witness ==
    /\ pc = "returned" /\ call.op = "delta" /\ built.res = "ok"
    /\ call.interval = 0
    /\ Len(rectype.fields) = 1
    /\ DOMAIN call.newdata.m = {"k1"}
    /\ call.newdata.m["k1"].fields = << IntV(110) >>
    /\ "k1" \in DOMAIN call.olddata.m
    /\ call.olddata.m["k1"].fields = << IntV(100) >>
    /\ built.rows = << << << "1", "0" >> >> >>

\* C5: in delta mode, for every key and displayed field of a completed build,
\* the cell is the field's format applied to (current - previous) / seconds
\* when both values are numeric, and to the current value alone otherwise.
C5_DeltaCells ==
    (call.op = "delta" /\ built.res = "ok")
    => IsPermutation(built.rows,
                     RateRows(IF call.interval = 0 THEN 1 ELSE call.interval))

\* C5 witness: current 110, previous 100 and an interval of 10 seconds were
\* rendered as "1" beside a string cell whose previous value differs.
C5_Witness ==
    /\ pc = "returned" /\ call.op = "delta" /\ built.res = "ok"
    /\ call.interval = 10
    /\ DOMAIN call.newdata.m = {"k1"}
    /\ call.newdata.m["k1"].fields = << StrV(<< "x" >>), IntV(110) >>
    /\ "k1" \in DOMAIN call.olddata.m
    /\ call.olddata.m["k1"].fields = << StrV(<< "y" >>), IntV(100) >>
    /\ built.rows = << << << "x" >>, << "1" >> >> >>

\* The position (1-based) of field name f among the rendered cells of a row.
RenderedPos(f) ==
    1 + Cardinality({g \in NonOmit : columns[g].number < columns[f].number})

\* rows are in the order of mode on their cell at position p.
SortedBy(rows, mode, p) ==
    \A j \in 1..(Len(rows) - 1) :
        LET sa == rows[j][p]
            sb == rows[j + 1][p]
            an == ParseFloat(sa)
            bn == ParseFloat(sb)
        IN  CASE mode = sortDesc -> ~StrLess(sa, sb)
              [] mode = sortAscNum -> ~NumLess(bn, an) /\ (NumEq(an, bn) => ~StrLess(sb, sa))
              [] mode = sortDescNum -> ~NumLess(an, bn) /\ (NumEq(an, bn) => ~StrLess(sa, sb))
              [] OTHER -> ~StrLess(sb, sa)

\* C6: a keyed build orders its rows on the cell that renders the designated
\* sort column, at that column's position among the rendered cells, and never
\* indexes a cell outside a row.  (Stated for a displayed sort column and, in
\* delta mode, for calls that reach the sort.)
C6_SortsOnRenderedCell ==
    ( /\ call.op \in {"map", "delta"}
      /\ sortcolumn \in NonOmit
      /\ call.op = "delta" =>
            /\ DOMAIN call.newdata.m \subseteq DOMAIN call.olddata.m
            /\ built.res # "error" )
    => /\ built.res = "ok"
       /\ SortedBy(built.rows, columns[sortcolumn].sort, RenderedPos(sortcolumn))

\* C9: at most one descriptor of a registry returned by ColumnInfo carries a
\* sort mode other than sortNone.
C9_AtMostOneSortColumn ==
    Cardinality({f \in DOMAIN columns : columns[f].sort # sortNone}) <= 1

\* The rendering of the first declared field of the record of key k.
FirstRendered(k) ==
    Sprintf(columns[rectype.fields[1].name].format, call.newdata.m[k].fields[1])

\* C10: the designated sort field is the field that declared a sort mode, and
\* the first declared field when none did; in the latter case the rows built
\* from a keyed collection are in ascending lexicographic order of the first
\* declared field's rendered value.  (Stated for registries with a displayed
\* column.)
C10_DefaultSortField ==
    LET declared == {f \in DOMAIN columns : columns[f].sort # sortNone}
    IN  (pc # "new" /\ NonOmit # {}) =>
          /\ declared # {} => sortcolumn \in declared
          /\ declared = {} => sortcolumn = rectype.fields[1].name
          /\ (declared = {} /\ call.op = "map") =>
                /\ built.res = "ok"
                /\ \E o \in Orders(DOMAIN call.newdata.m) :
                      /\ built.rows =
                            [j \in 1..Len(o) |->
                                RenderCells(columns, Names(rectype),
                                            call.newdata.m[o[j]].fields, 1)]
                      /\ \A j \in 1..(Len(o) - 1) :
                            ~StrLess(FirstRendered(o[j + 1]), FirstRendered(o[j]))

\* The clauses of the parsed tag, and those without '='.
TagClauses == Split(tagcall.tag, ",")
NameOnly == {j \in 1..Len(TagClauses) : IndexByte(TagClauses[j], "=") = -1}

\* C7: a tag made of one sort clause parses without error: "sort=-num" is
\* sortDescNum, "sort=-" sortDesc, "sort=num" and "sort=+num" sortAscNum, and
\* "sort=" sortAsc like "sort=+".
C7_SortClause ==
    LET rest == SubSeq(tagcall.tag, 6, Len(tagcall.tag))
        mode == CASE rest = << "-", "n", "u", "m" >> -> sortDescNum
                  [] rest = << "-" >> -> sortDesc
                  [] rest \in {<< "n", "u", "m" >>, << "+", "n", "u", "m" >>} -> sortAscNum
                  [] OTHER -> sortAsc
    IN  ( /\ parsed.res # "none"
          /\ Len(TagClauses) = 1
          /\ Len(tagcall.tag) >= 5
          /\ SubSeq(tagcall.tag, 1, 5) = << "s", "o", "r", "t", "=" >> )
        => /\ parsed.res = "ok"
           /\ parsed.cols.sort = mode

\* C8: parseTags fails whenever the tag has two name-only clauses, whatever the
\* field name and the names; with at most one it succeeds and the display name
\* is that clause, or the field name when there is none.  (Stated for tags
\* without an empty clause and without the clause "sort=".)
C8_NameClauses ==
    ( /\ parsed.res # "none"
      /\ \A j \in 1..Len(TagClauses) :
            TagClauses[j] \notin {<< >>, << "s", "o", "r", "t", "=" >>} )
    => /\ Cardinality(NameOnly) >= 2 => parsed.res = "error"
       /\ Cardinality(NameOnly) <= 1 =>
             /\ parsed.res = "ok"
             /\ parsed.cols.name =
                   IF NameOnly = {} THEN tagcall.fieldname
                   ELSE TagClauses[CHOOSE j \in NameOnly : TRUE]

\* The indexes (1-based) of the fields of the record type whose tag gives them
\* a display name other than OMIT, in declaration order.
RECURSIVE Visible(_)
Visible(i) ==
    IF i > Len(rectype.fields) THEN << >>
    ELSE (IF rectype.fields[i].hastag /\ rectype.fields[i].tag = OMIT
          THEN << >> ELSE << i >>) \o Visible(i + 1)

\* The display name the tag of field i declares: the field name when the tag
\* has no name clause.
DeclaredName(i) ==
    LET fd == rectype.fields[i]
    IN  IF fd.hastag /\ fd.tag # << >> /\ IndexByte(fd.tag, "=") = -1
        THEN fd.tag ELSE fd.name

\* The cells of the visible fields of one record, each rendered with the
\* format of its descriptor.
VisibleCells(values) ==
    LET shown == Visible(1)
    IN  [j \in 1..Len(shown) |->
            Sprintf(columns[rectype.fields[shown[j]].name].format, values[shown[j]])]

\* The records of the collection a call was handed.
CallRecords ==
    {call.newdata.m[k] : k \in DOMAIN call.newdata.m}
    \cup {call.newdata.l[j] : j \in 1..Len(call.newdata.l)}

\* C11: once ColumnInfo has returned, the column-name list is exactly the
\* display names other than OMIT in field declaration order; a field named
\* OMIT produces no cell in any row built, in any mode; it still has its entry
\* in the registry, and rowFromStruct still returns its value at its declared
\* position.
C11_OmitHidden ==
    pc # "new" =>
        /\ columnnames = [j \in 1..Len(Visible(1)) |-> DeclaredName(Visible(1)[j])]
        /\ \A j \in 1..Len(columnnames) : columnnames[j] # OMIT
        /\ DOMAIN columns = {rectype.fields[i].name : i \in 1..Len(rectype.fields)}
        /\ \A i \in 1..Len(rectype.fields) :
              columns[rectype.fields[i].name].name = DeclaredName(i)
        /\ (call.op = "slice" /\ built.res = "ok") =>
              built.rows = [j \in 1..Len(call.newdata.l) |->
                               VisibleCells(call.newdata.l[j].fields)]
        /\ (call.op = "map" /\ built.res = "ok") =>
              IsPermutation(built.rows,
                  [j \in 1..Len(CurrentKeys) |->
                      VisibleCells(call.newdata.m[CurrentKeys[j]].fields)])
        /\ (call.op = "delta" /\ built.res = "ok") =>
              \A j \in 1..Len(built.rows) : Len(built.rows[j]) = Len(Visible(1))
        /\ \A e \in CallRecords :
              /\ rowFromStruct(columns, e).res = "ok"
              /\ rowFromStruct(columns, e).row = e.fields

\* C11 witness: the record type declares A as OMIT and B as displayed, and a
\* keyed build has returned the row of a record {A: 100, B: "x"} as the one
\* cell "x".
C11_Witness ==
    /\ pc = "returned" /\ call.op = "map" /\ built.res = "ok"
    /\ Len(rectype.fields) = 2
    /\ columns[<< "A" >>].name = OMIT
    /\ columnnames = << << "B" >> >>
    /\ \E k \in DOMAIN call.newdata.m :
          call.newdata.m[k].fields = << IntV(100), StrV(<< "x" >>) >>
    /\ built.rows = << << << "x" >> >> >>

\* C12: in the numeric sort modes sortRows never fails and returns the input
\* rows in some order, such that no row comes before a row that is numerically
\* smaller (sortAscNum) or greater (sortDescNum) than it, a cell that does not
\* parse counting as 0, and numerically equal cells are in lexicographic order
\* of the same direction; sortDescNum leaves "10", "2", "x" as they are.
C12_NumericOrder ==
    (sorted.res # "none" /\ sortcall.sorttype \in {sortAscNum, sortDescNum}) =>
        /\ sorted.res = "ok"
        /\ IsPermutation(sorted.rows, sortcall.rows)
        /\ \A i, j \in 1..Len(sorted.rows) :
              i < j =>
                LET sa == sorted.rows[i][1]
                    sb == sorted.rows[j][1]
                    an == ParseFloat(sa)
                    bn == ParseFloat(sb)
                IN  IF sortcall.sorttype = sortAscNum
                    THEN ~NumLess(bn, an) /\ (NumEq(an, bn) => ~StrLess(sb, sa))
                    ELSE ~NumLess(an, bn) /\ (NumEq(an, bn) => ~StrLess(sa, sb))
        /\ ( /\ sortcall.sorttype = sortDescNum
             /\ sortcall.rows = << << << "1", "0" >> >>, << << "2" >> >>, << << "x" >> >> >> )
           => sorted.rows = sortcall.rows

\* C13: when the value handed to an UpdateTableFrom* method is not the expected
\* kind of collection, or its elements are not records, the RowsFrom* call
\* inside it returns an error, and the method returns an error and publishes
\* no table.
C13_ShapeErrorSurfaces ==
    ( /\ call.op # "none"
      /\ \/ shape = "collection"
         \/ shape = "scalars" /\ \E e \in CallRecords : e.kind # "struct" ) =>
        /\ built.res = "error"
        /\ ret = "error"
        /\ ~sent.published

\* C14: RowsFromSlice returns one row per record of the sequence, row i being
\* the rendering of record i, whatever sort column and sort mode the registry
\* designates.
C14_SliceOrderKept ==
    call.op = "slice" =>
        /\ built.res = "ok"
        /\ Len(built.rows) = Len(call.newdata.l)
        /\ \A i \in 1..Len(built.rows) :
              built.rows[i] = VisibleCells(call.newdata.l[i].fields)

\* C14 witness: the registry designates A, declared "sort=-", as the sort
\* column, and a sequence of two records was rendered as "100" then "110", which
\* is not the descending order.
C14_Witness ==
    /\ pc = "returned" /\ call.op = "slice" /\ built.res = "ok"
    /\ sortcolumn = << "A" >>
    /\ columns[sortcolumn].sort = sortDesc
    /\ Len(rectype.fields) = 1
    /\ call.newdata.l = << Struct(<< IntV(100) >>), Struct(<< IntV(110) >>) >>
    /\ built.rows = << << << "1", "0", "0" >> >>, << << "1", "1", "0" >> >> >>

\* C15: in the task Start launches, DoSample is called at most once per tick
\* and never while a call is in progress; once a call has returned an error no
\* further call is made; wg.Done() is called at most once, only after that
\* error, and has been called when the task has ended; and wg.Add(1) is called
\* only when the dataview is defined and InitSampler returned nil.
C15_SamplingTask ==
    /\ samples <= ticks
    /\ running <= 1
    /\ failedAt # -1 => samples = failedAt
    /\ dones <= 1
    /\ dones = 1 => failedAt # -1
    /\ task = "exited" => dones = 1
    /\ wg >= 0
    /\ wg + dones <= 1
    /\ wg + dones = 1 <=> (dataview = "defined" /\ initerr = "nil")
    /\ starterr = "error" => task = "none"

\* C15 witness: more than four ticks fired, three of them led to a DoSample
\* call, the third call returned an error, and the task called wg.Done() and
\* ended.
C15_Witness ==
    /\ task = "exited"
    /\ failedAt = 3 /\ samples = 3
    /\ ticks > 4
    /\ dones = 1 /\ wg = 0

\* A name that neither begins nor ends with "-"; the empty name is one.
Plain(t) == t = << >> \/ (t[1] # "-" /\ t[Len(t)] # "-")

\* C16: after CreateDataview(name, group) or SetDataviewName(name, group), for
\* every name and every group, DataviewGroupNames returns exactly (name, group),
\* and a Close that removes a view removes the view of that name and group.
\* (Stated for a view name that is not empty and names that neither begin nor
\* end with "-".)
C16_NameRoundTrip ==
    ( /\ viewcall.op # "none"
      /\ viewcall.name # << >>
      /\ Plain(viewcall.name) /\ Plain(viewcall.group) ) =>
        /\ DataviewGroupNames(dataviewName) =
              [view |-> viewcall.name, group |-> viewcall.group, res |-> "ok"]
        /\ removed.called =>
              (removed.view = viewcall.name /\ removed.group = viewcall.group)

\* C17: under every interleaving of the heartbeat goroutines and xSignOff, the
\* WaitGroup is released at most once per xSignOn, and its counter never
\* becomes negative.
C17_ReleasedOncePerSignOn ==
    /\ releases <= signons
    /\ waitGroup >= 0

=============================================================================
